---- MODULE Spec2Model ----
(***************************************************************************)
(* Model of arc_shape_svg (arc_sequence_generator.py): the builder of the   *)
(* [U -> semicircle] * n -> final U outline, and of the example driver      *)
(* that calls it several times in a row.                                    *)
(*                                                                          *)
(* Lengths are integers counting 1/Scale units (Scale = 4: quarters), a     *)
(* domain on which Python's binary floating point adds and multiplies       *)
(* exactly.  The text of a coordinate is modelled by what the format spec   *)
(* produces: ".2f" yields a number of hundredths, ".0f" a whole number,     *)
(* both rounded half-to-even.                                               *)
(***************************************************************************)
EXTENDS Integers, Sequences, FiniteSets

\* ------------------------------------------------------------------ bounds
Scale == 4
MaxN == 2
MaxV == 2
MaxSeqN == 2
MaxSeqV == 2

\* ------------------------------------------------------- program constants
NumExamples == 3

VARIABLES pc, p, top_y, baseline, arc_apex_y, pattern_width, total_width,
          total_height, x, cmds, i, err, svg, calls, first

vars == <<pc, p, top_y, baseline, arc_apex_y, pattern_width, total_width,
          total_height, x, cmds, i, err, svg, calls, first>>

layoutVars == <<top_y, baseline, arc_apex_y>>
dimVars == <<pattern_width, total_width, total_height>>

\* ------------------------------------------------------------- formatting
RoundHalfEven(a, b) ==
    LET q == a \div b
        r == a % b
    IN  IF 2 * r < b THEN q
        ELSE IF 2 * r > b THEN q + 1
        ELSE IF q % 2 = 0 THEN q ELSE q + 1

\* f"{v:.2f}": the number of hundredths the text denotes
Fmt2(v) == RoundHalfEven(v * 100, Scale)

\* f"{v:.0f}": the whole number the text denotes
Fmt0(v) == RoundHalfEven(v, Scale)

Cmd(op, args) == [op |-> op, args |-> args]

\* ------------------------------------------------------------- parameters
Vals == -1 .. MaxV

GridParams ==
    [n : 0 .. MaxN, R : Vals, u_width : Vals, u_depth : Vals,
     ext_above : Vals, margin : Vals,
     stroke : {"black"}, stroke_width : {"2.5"}, linecap : {"round"},
     linejoin : {"round"}, background : {"white"}]

\* the defaults of the signature, for a given repetition count
DefaultParams(n) ==
    [n |-> n, R |-> 24 * Scale, u_width |-> 16 * Scale,
     u_depth |-> 28 * Scale, ext_above |-> 12 * Scale, margin |-> 16 * Scale,
     stroke |-> "black", stroke_width |-> "2.5", linecap |-> "round",
     linejoin |-> "round", background |-> "white"]

\* the preset of the example driver
ExampleParams(n) ==
    [n |-> n, R |-> 24 * Scale, u_width |-> 18 * Scale,
     u_depth |-> 30 * Scale, ext_above |-> 14 * Scale, margin |-> 20 * Scale,
     stroke |-> "black", stroke_width |-> "2.5", linecap |-> "round",
     linejoin |-> "round", background |-> "white"]

examples == {1, 3, 6}

Params == GridParams \cup {DefaultParams(1)} \cup {ExampleParams(n) : n \in examples}

\* the parameter sets of the repeated-call specification
SeqParams ==
    [n : 0 .. MaxSeqN, R : {1}, u_width : 1 .. MaxSeqV, u_depth : {1},
     ext_above : {0, 1}, margin : 0 .. MaxSeqV,
     stroke : {"black"}, stroke_width : {"2.5"}, linecap : {"round"},
     linejoin : {"round"}, background : {"white"}]

\* ------------------------------------------------------------------ errors
MsgN == "n_semicircles must be >= 1"
MsgExt == "ext_above must be > 0"
MsgApex == "Increase ext_above or margin to rise above the arc apex."
NoErr == ""

InvalidParameter == {MsgN, MsgExt}
GeometryError == {MsgApex}

NoDoc == [none |-> TRUE]
NoCall == [none |-> TRUE]

\* the outcome of the first completed call, kept by the caller
Record(doc, e) ==
    IF first = NoCall THEN [p |-> p, svg |-> doc, err |-> e] ELSE first

\* a failed assert: the AssertionError leaves the function
Fail(msg) ==
    /\ pc' = "raised"
    /\ err' = msg
    /\ first' = Record(NoDoc, msg)

\* ------------------------------------------------------------------- state
Start(ps) ==
    /\ pc = "assert_n"
    /\ p \in ps
    /\ top_y = 0 /\ baseline = 0 /\ arc_apex_y = 0
    /\ pattern_width = 0 /\ total_width = 0 /\ total_height = 0
    /\ x = 0 /\ cmds = << >> /\ i = 0
    /\ err = NoErr /\ svg = NoDoc
    /\ calls = 1 /\ first = NoCall

Init == Start(Params)

InitSeq == Start(SeqParams)

\* ------------------------------------------------------------ the function
\* variant: the repetition check lets a count of 0 through
AssertNAcceptsZero ==
    /\ pc = "assert_n"
    /\ IF p.n >= 0
       THEN pc' = "assert_ext" /\ UNCHANGED <<err, first>>
       ELSE Fail(MsgN)
    /\ UNCHANGED <<p, layoutVars, dimVars, x, cmds, i, svg, calls>>

AssertN ==
    /\ pc = "assert_n"
    /\ IF p.n >= 1
       THEN pc' = "assert_ext" /\ UNCHANGED <<err, first>>
       ELSE Fail(MsgN)
    /\ UNCHANGED <<p, layoutVars, dimVars, x, cmds, i, svg, calls>>

\* variant: the extension check lets a height of 0 through
AssertExtAcceptsZero ==
    /\ pc = "assert_ext"
    /\ IF p.ext_above >= 0
       THEN pc' = "layout" /\ UNCHANGED <<err, first>>
       ELSE Fail(MsgExt)
    /\ UNCHANGED <<p, layoutVars, dimVars, x, cmds, i, svg, calls>>

\* variant: the extension check runs after the move-to has been emitted
AssertExtAfterMove ==
    /\ pc = "assert_ext"
    /\ cmds' = Append(cmds, Cmd("M", <<Fmt2(p.margin), Fmt2(baseline)>>))
    /\ IF p.ext_above > 0
       THEN pc' = "layout" /\ UNCHANGED <<err, first>>
       ELSE Fail(MsgExt)
    /\ UNCHANGED <<p, layoutVars, dimVars, x, i, svg, calls>>

AssertExt ==
    /\ pc = "assert_ext"
    /\ IF p.ext_above > 0
       THEN pc' = "layout" /\ UNCHANGED <<err, first>>
       ELSE Fail(MsgExt)
    /\ UNCHANGED <<p, layoutVars, dimVars, x, cmds, i, svg, calls>>

\* variant: the apex loses the extension again and the check guards the
\* baseline instead of the apex
LayoutChecksBaseline ==
    /\ pc = "layout"
    /\ top_y' = p.margin
    /\ baseline' = top_y' + p.R + p.ext_above
    /\ arc_apex_y' = baseline' - p.R - p.ext_above
    /\ IF top_y' < baseline'
       THEN pc' = "dims" /\ UNCHANGED <<err, first>>
       ELSE Fail(MsgApex)
    /\ UNCHANGED <<p, dimVars, x, cmds, i, svg, calls>>

Layout ==
    /\ pc = "layout"
    /\ top_y' = p.margin
    /\ baseline' = top_y' + p.R + p.ext_above
    /\ arc_apex_y' = baseline' - p.R
    /\ IF top_y' < arc_apex_y'
       THEN pc' = "dims" /\ UNCHANGED <<err, first>>
       ELSE Fail(MsgApex)
    /\ UNCHANGED <<p, dimVars, x, cmds, i, svg, calls>>

\* variant: the width of the final U is left out
DimsNoFinalU ==
    /\ pc = "dims"
    /\ pattern_width' = p.n * (p.u_width + 2 * p.R)
    /\ total_width' = pattern_width' + 2 * p.margin
    /\ total_height' = baseline + p.u_depth + p.margin
    /\ pc' = "init_path"
    /\ UNCHANGED <<p, layoutVars, x, cmds, i, err, svg, calls, first>>

Dims ==
    /\ pc = "dims"
    /\ pattern_width' = p.n * (p.u_width + 2 * p.R) + p.u_width
    /\ total_width' = pattern_width' + 2 * p.margin
    /\ total_height' = baseline + p.u_depth + p.margin
    /\ pc' = "init_path"
    /\ UNCHANGED <<p, layoutVars, x, cmds, i, err, svg, calls, first>>

\* variant: the command list is not created afresh (a list shared between
\* calls, as a mutable default argument would be)
InitPathKeepsCmds ==
    /\ pc = "init_path"
    /\ x' = p.margin
    /\ cmds' = Append(cmds, Cmd("M", <<Fmt2(x'), Fmt2(baseline)>>))
    /\ pc' = "left_cap"
    /\ UNCHANGED <<p, layoutVars, dimVars, i, err, svg, calls, first>>

InitPath ==
    /\ pc = "init_path"
    /\ x' = p.margin
    /\ cmds' = << Cmd("M", <<Fmt2(x'), Fmt2(baseline)>>) >>
    /\ pc' = "left_cap"
    /\ UNCHANGED <<p, layoutVars, dimVars, i, err, svg, calls, first>>

LeftCap ==
    /\ pc = "left_cap"
    /\ cmds' = cmds \o << Cmd("V", <<Fmt2(top_y)>>),
                          Cmd("V", <<Fmt2(baseline)>>) >>
    /\ pc' = "for"
    /\ UNCHANGED <<p, layoutVars, dimVars, x, i, err, svg, calls, first>>

ForRange ==
    /\ pc = "for"
    /\ i' = 0
    /\ pc' = "loop"
    /\ UNCHANGED <<p, layoutVars, dimVars, x, cmds, err, svg, calls, first>>

\* variant: the loop runs once too often
ForNextOffByOne ==
    /\ pc = "loop"
    /\ pc' = IF i <= p.n THEN "u_down" ELSE "final_down"
    /\ UNCHANGED <<p, layoutVars, dimVars, x, cmds, i, err, svg, calls, first>>

ForNext ==
    /\ pc = "loop"
    /\ pc' = IF i < p.n THEN "u_down" ELSE "final_down"
    /\ UNCHANGED <<p, layoutVars, dimVars, x, cmds, i, err, svg, calls, first>>

UDown ==
    /\ pc = "u_down"
    /\ cmds' = Append(cmds, Cmd("V", <<Fmt2(baseline + p.u_depth)>>))
    /\ pc' = "u_right"
    /\ UNCHANGED <<p, layoutVars, dimVars, x, i, err, svg, calls, first>>

URight ==
    /\ pc = "u_right"
    /\ x' = x + p.u_width
    /\ cmds' = Append(cmds, Cmd("H", <<Fmt2(x')>>))
    /\ pc' = "u_up"
    /\ UNCHANGED <<p, layoutVars, dimVars, i, err, svg, calls, first>>

UUp ==
    /\ pc = "u_up"
    /\ cmds' = Append(cmds, Cmd("V", <<Fmt2(baseline)>>))
    /\ pc' = "arc"
    /\ UNCHANGED <<p, layoutVars, dimVars, x, i, err, svg, calls, first>>

\* variant: the arc spans the radius, not the diameter
ArcByRadius ==
    /\ pc = "arc"
    /\ LET x_arc_end == x + p.R
       IN  /\ cmds' = Append(cmds, Cmd("A", <<Fmt2(p.R), Fmt2(p.R), 0, 0, 1,
                                               Fmt2(x_arc_end), Fmt2(baseline)>>))
           /\ x' = x_arc_end
    /\ i' = i + 1
    /\ pc' = "loop"
    /\ UNCHANGED <<p, layoutVars, dimVars, err, svg, calls, first>>

Arc ==
    /\ pc = "arc"
    /\ LET x_arc_end == x + 2 * p.R
       IN  /\ cmds' = Append(cmds, Cmd("A", <<Fmt2(p.R), Fmt2(p.R), 0, 0, 1,
                                               Fmt2(x_arc_end), Fmt2(baseline)>>))
           /\ x' = x_arc_end
    /\ i' = i + 1
    /\ pc' = "loop"
    /\ UNCHANGED <<p, layoutVars, dimVars, err, svg, calls, first>>

FinalDown ==
    /\ pc = "final_down"
    /\ cmds' = Append(cmds, Cmd("V", <<Fmt2(baseline + p.u_depth)>>))
    /\ pc' = "final_right"
    /\ UNCHANGED <<p, layoutVars, dimVars, x, i, err, svg, calls, first>>

\* variant: the final U advances the cursor twice
FinalRightTwice ==
    /\ pc = "final_right"
    /\ x' = x + p.u_width + p.u_width
    /\ cmds' = Append(cmds, Cmd("H", <<Fmt2(x')>>))
    /\ pc' = "final_up"
    /\ UNCHANGED <<p, layoutVars, dimVars, i, err, svg, calls, first>>

FinalRight ==
    /\ pc = "final_right"
    /\ x' = x + p.u_width
    /\ cmds' = Append(cmds, Cmd("H", <<Fmt2(x')>>))
    /\ pc' = "final_up"
    /\ UNCHANGED <<p, layoutVars, dimVars, i, err, svg, calls, first>>

FinalUp ==
    /\ pc = "final_up"
    /\ cmds' = Append(cmds, Cmd("V", <<Fmt2(baseline)>>))
    /\ pc' = "right_cap"
    /\ UNCHANGED <<p, layoutVars, dimVars, x, i, err, svg, calls, first>>

RightCap ==
    /\ pc = "right_cap"
    /\ cmds' = Append(cmds, Cmd("V", <<Fmt2(top_y)>>))
    /\ pc' = "close"
    /\ UNCHANGED <<p, layoutVars, dimVars, x, i, err, svg, calls, first>>

\* variant: the closing segment goes to the left edge of the canvas
CloseToCanvasEdge ==
    /\ pc = "close"
    /\ LET left_x == 0
       IN  cmds' = Append(cmds, Cmd("H", <<Fmt2(left_x)>>))
    /\ pc' = "render"
    /\ UNCHANGED <<p, layoutVars, dimVars, x, i, err, svg, calls, first>>

Close ==
    /\ pc = "close"
    /\ LET left_x == p.margin
       IN  cmds' = Append(cmds, Cmd("H", <<Fmt2(left_x)>>))
    /\ pc' = "render"
    /\ UNCHANGED <<p, layoutVars, dimVars, x, i, err, svg, calls, first>>

Render ==
    /\ pc = "render"
    /\ LET path_d == cmds
           w == Fmt0(total_width)
           h == Fmt0(total_height)
       IN  svg' = [width |-> w, height |-> h, viewBox |-> <<0, 0, w, h>>,
                   rect |-> [x |-> 0, y |-> 0, width |-> w, height |-> h,
                             fill |-> p.background],
                   path |-> [d |-> path_d, fill |-> "none",
                             stroke |-> p.stroke,
                             stroke_width |-> p.stroke_width,
                             linecap |-> p.linecap,
                             linejoin |-> p.linejoin]]
    /\ pc' = "returned"
    /\ first' = Record(svg', NoErr)
    /\ UNCHANGED <<p, layoutVars, dimVars, x, cmds, i, err, calls>>

\* ------------------------------------------------------------- the driver
\* the next call of the driver's loop: new arguments, a new outcome
NewCall ==
    /\ pc \in {"returned", "raised"}
    /\ calls < NumExamples
    /\ calls' = calls + 1
    /\ p' \in SeqParams
    /\ pc' = "assert_n"
    /\ err' = NoErr
    /\ svg' = NoDoc
    /\ UNCHANGED <<layoutVars, dimVars, x, cmds, i, first>>

\* --------------------------------------------------------- specifications
Next ==
    \/ AssertN \/ AssertExt \/ Layout \/ Dims \/ InitPath \/ LeftCap
    \/ ForRange \/ ForNext \/ UDown \/ URight \/ UUp \/ Arc
    \/ FinalDown \/ FinalRight \/ FinalUp \/ RightCap \/ Close \/ Render

Spec == Init /\ [][Next]_vars

NextSeq == Next \/ NewCall

SpecSeq == InitSeq /\ [][NextSeq]_vars

\* ------------------------------------------------------ program positions
PathPcs == {"left_cap", "for", "loop", "u_down", "u_right", "u_up", "arc",
            "final_down", "final_right", "final_up", "right_cap", "close",
            "render", "returned"}
PostDims == PathPcs \cup {"init_path"}
PostLayout == PostDims \cup {"dims"}
AfterFinalU == {"right_cap", "close", "render", "returned"}

\* ------------------------------------------------------- reading the path
ArcIdx == {j \in 1 .. Len(cmds) : cmds[j].op = "A"}

IsU(j) ==
    /\ j + 2 <= Len(cmds)
    /\ cmds[j] = Cmd("V", <<Fmt2(baseline + p.u_depth)>>)
    /\ cmds[j + 1].op = "H"
    /\ cmds[j + 2] = Cmd("V", <<Fmt2(baseline)>>)

UIdx == {j \in 1 .. Len(cmds) : IsU(j)}

\* the cursor after the k-th U (k = 1 .. n+1)
UEndX(k) == p.margin + (k - 1) * (p.u_width + 2 * p.R) + p.u_width

NonNeg == p.R >= 0 /\ p.u_width >= 0 /\ p.u_depth >= 0 /\ p.margin >= 0

\* the y coordinates a command names
CmdYs(c) ==
    IF c.op = "M" THEN {c.args[2]}
    ELSE IF c.op = "V" THEN {c.args[1]}
    ELSE IF c.op = "A" THEN {c.args[7]}
    ELSE {}

\* the x coordinates a command names
CmdXs(c) ==
    IF c.op = "M" THEN {c.args[1]}
    ELSE IF c.op = "H" THEN {c.args[1]}
    ELSE IF c.op = "A" THEN {c.args[6]}
    ELSE {}

\* ------------------------------------------------------------------ claims

\* C1: a returned path holds exactly n arc commands and exactly n+1 U-shapes,
\* each U a consecutive down/right/up triple (V to baseline+u_depth, H to the
\* advanced x, V back to baseline); every arc directly follows a U and
\* nothing but the right end-cap follows the last U.
C1_ArcsAndUs ==
    pc = "returned" =>
        /\ Cardinality(ArcIdx) = p.n
        /\ Cardinality(UIdx) = p.n + 1
        /\ UIdx = {4 * k : k \in 1 .. p.n + 1}
        /\ ArcIdx = {4 * k + 3 : k \in 1 .. p.n}
        /\ \A k \in 1 .. p.n + 1 : cmds[4 * k + 1] = Cmd("H", <<Fmt2(UEndX(k))>>)
        /\ \A j \in ArcIdx : j - 3 \in UIdx
        /\ Len(cmds) = 4 * (p.n + 1) + 4
        /\ cmds[4 * (p.n + 1) + 3].op = "V"

C1_Witness ==
    /\ pc = "returned" /\ p.n = 2 /\ p.u_width > 0 /\ p.R > 0
    /\ Cardinality(ArcIdx) = 2 /\ Cardinality(UIdx) = 3

\* C2: a returned path starts with a move to (margin, baseline) and ends
\* with a horizontal segment to x = margin drawn at height top, the point
\* the left end-cap reached with the second command.
C2_FirstAndLast ==
    pc = "returned" =>
        /\ cmds[1] = Cmd("M", <<Fmt2(p.margin),
                                 Fmt2(p.margin + p.R + p.ext_above)>>)
        /\ cmds[2] = Cmd("V", <<Fmt2(p.margin)>>)
        /\ cmds[Len(cmds) - 1] = Cmd("V", <<Fmt2(p.margin)>>)
        /\ cmds[Len(cmds)] = Cmd("H", <<Fmt2(p.margin)>>)
        /\ svg.path.d = cmds

C2_Witness ==
    /\ pc = "returned" /\ p.margin > 0 /\ p.u_width > 0 /\ p.R > 0
    /\ cmds[Len(cmds)] = Cmd("H", <<Fmt2(p.margin)>>)
    /\ cmds[Len(cmds) - 2].args # cmds[Len(cmds)].args

\* C3: total_width = n*(u_width + 2*radius) + u_width + 2*margin and
\* total_height = baseline + u_depth + margin with baseline = margin +
\* radius + ext_above; the defaults with one repetition give top 16,
\* baseline 52, apex 28 and a document of width 112 and height 96.
C3_Dimensions ==
    /\ pc \in PostDims =>
        /\ total_width = p.n * (p.u_width + 2 * p.R) + p.u_width + 2 * p.margin
        /\ baseline = p.margin + p.R + p.ext_above
        /\ total_height = baseline + p.u_depth + p.margin
    /\ pc = "returned" =>
        /\ svg.width = Fmt0(p.n * (p.u_width + 2 * p.R) + p.u_width + 2 * p.margin)
        /\ svg.height = Fmt0(p.margin + p.R + p.ext_above + p.u_depth + p.margin)
    /\ (pc = "returned" /\ p = DefaultParams(1)) =>
        /\ Fmt2(top_y) = 1600 /\ Fmt2(baseline) = 5200 /\ Fmt2(arc_apex_y) = 2800
        /\ svg.width = 112 /\ svg.height = 96

C3_Witness ==
    /\ pc = "returned" /\ p = DefaultParams(1)
    /\ svg.width = 112 /\ svg.height = 96

\* C4: a call with repetition count < 1 or extension height <= 0 fails with
\* InvalidParameter (it never gets past the two parameter checks); a call
\* with repetition count >= 1 and extension height > 0 never does.
C4_InvalidParameter ==
    /\ (p.n < 1 \/ p.ext_above <= 0) =>
          \/ pc \in {"assert_n", "assert_ext"}
          \/ pc = "raised" /\ err \in InvalidParameter
    /\ (p.n >= 1 /\ p.ext_above > 0) => err \notin InvalidParameter

C4_Witness ==
    pc = "raised" /\ p.n >= 1 /\ p.ext_above = 0 /\ err = MsgExt

\* C5: wherever the builder goes on past the geometry check, and so for
\* every returned document, top = margin is strictly less than
\* arc_apex = baseline - radius; a call whose top is not strictly less
\* fails with GeometryError.
C5_TopAboveApex ==
    /\ pc \in PostLayout =>
        /\ top_y = p.margin
        /\ arc_apex_y = baseline - p.R
        /\ top_y < arc_apex_y
    /\ (pc = "raised" /\ err \notin InvalidParameter) =>
        /\ ~(top_y < arc_apex_y)
        /\ err \in GeometryError
    /\ svg # NoDoc => top_y < arc_apex_y

C5_Witness ==
    pc = "returned" /\ svg # NoDoc /\ top_y < arc_apex_y /\ p.margin < 0

\* C6: an error is raised before any path command is appended and before
\* any document exists: in a failed call the command list is empty and no
\* document has been produced.
C6_NoPartialOutput ==
    /\ pc = "raised" => (cmds = << >> /\ svg = NoDoc /\ err # NoErr)
    /\ err # NoErr => pc = "raised"
    /\ svg # NoDoc => (pc = "returned" /\ err = NoErr)

C6_Witness ==
    pc = "raised" /\ p.n >= 1 /\ p.ext_above < 0 /\ cmds = << >> /\ svg = NoDoc

\* C7: a call with the parameters of the first call ends as the first call
\* did (same document, so same commands and dimensions, or same error),
\* whatever calls ran in between.
C7_SameParamsSameOutput ==
    (pc \in {"returned", "raised"} /\ first # NoCall /\ first.p = p) =>
        (first.svg = svg /\ first.err = err)

C7_Witness ==
    /\ pc = "returned" /\ calls = NumExamples
    /\ first # NoCall /\ first.p = p /\ first.svg = svg /\ p.n >= 1

\* C8: every arc command follows the 'up' segment of a U, has both radii
\* equal to radius and the flags 0 0 1, ends on the baseline exactly
\* 2*radius to the right of the x of that U, and leaves the cursor at the
\* arc's end x.
C8_ArcGeometry ==
    /\ \A j \in ArcIdx :
        /\ j >= 3
        /\ cmds[j - 2].op = "H"
        /\ cmds[j - 1] = Cmd("V", <<Fmt2(baseline)>>)
        /\ cmds[j].args = <<Fmt2(p.R), Fmt2(p.R), 0, 0, 1,
                            cmds[j - 2].args[1] + Fmt2(2 * p.R),
                            Fmt2(baseline)>>
    /\ (pc = "loop" /\ i > 0) =>
        /\ cmds[Len(cmds)].op = "A"
        /\ cmds[Len(cmds)].args[6] = Fmt2(x)

C8_Witness ==
    /\ pc = "loop" /\ i = 2 /\ p.R > 0
    /\ cmds[Len(cmds)].op = "A" /\ cmds[Len(cmds)].args[6] = Fmt2(x)

\* C9: once the two parameter checks pass the geometry check cannot fail:
\* arc_apex - top = ext_above whatever margin and radius are, so no call
\* ends in GeometryError.
C9_GeometryErrorUnreachable ==
    /\ err \notin GeometryError
    /\ pc \in PostLayout =>
        /\ arc_apex_y - top_y = p.ext_above
        /\ p.ext_above > 0

C9_Witness ==
    /\ pc = "dims" /\ arc_apex_y - top_y = p.ext_above
    /\ p.R < 0 /\ p.margin < 0

\* C10: with non-negative radius, u_width, u_depth and margin the cursor x
\* stays in [margin, total_width - margin] and never decreases, every y
\* coordinate of the path and the arc apex lie in
\* [margin, total_height - margin], and after the final U the cursor is at
\* margin + pattern_width = total_width - margin.
C10_Inside ==
    (NonNeg /\ pc \in PathPcs) =>
        /\ p.margin <= x /\ x <= total_width - p.margin
        /\ \A j \in 1 .. Len(cmds) :
            /\ \A y \in CmdYs(cmds[j]) :
                  Fmt2(p.margin) <= y /\ y <= Fmt2(total_height - p.margin)
            /\ \A cx \in CmdXs(cmds[j]) :
                  Fmt2(p.margin) <= cx /\ cx <= Fmt2(total_width - p.margin)
        /\ p.margin <= baseline - p.R
        /\ baseline - p.R <= total_height - p.margin
        /\ pc \in AfterFinalU =>
              (x = p.margin + pattern_width /\ x = total_width - p.margin)

C10_Monotone == (NonNeg /\ pc \in PathPcs) => x' >= x

====
